---- MODULE Spec2Model ----
\* A model of src/todo.py: the TodoItem record, the TodoManager store with its
\* JSON file, and the operations add / remove / complete / uncomplete / update /
\* get_todos, as one state machine.
\*
\* Conventions
\*   Optional[T]   : None is the empty tuple <<>>, a present value v is <<v>>.
\*   timestamps    : the clock is the number of seconds passed since the run
\*                   began; Timestamp formats it as datetime.now().strftime does.
\*   the file      : [kind, data]; kind tells what open()/json.load() meet
\*                   ("missing", "notjson", "nonobject", "object"), data is the
\*                   parsed JSON value when kind = "object": a function from the
\*                   keys present in the document to their values.
EXTENDS Integers, Sequences, FiniteSets, TLC

VARIABLES
    todos,      \* TodoManager.todos: the list of TodoItem objects
    next_id,    \* TodoManager.next_id
    file,       \* the content of TodoManager.filename on disk
    now,        \* the wall clock: seconds passed since the run began
    pc,         \* "new": __init__ has set the fields, load_todos not yet run;
                \* "ready": constructed; "crashed": an exception left __init__
    last,       \* the last call and what it returned: [op, args, ret]
    assigned,   \* the ids add_todo has returned on this manager, in call order
    snap,       \* the list as it was before the last successful complete_todo,
                \* kept while only complete(id); uncomplete(id) ran since
    earlier,    \* the highest id add_todo returned on the managers that ran on
                \* this file before this one, 0 when there was none
    other       \* a second manager on the same file, when there is one: its
                \* [todos, next_id, assigned]; the variables above are those
                \* of the manager whose calls are running

vars == <<todos, next_id, file, now, pc, last, assigned, snap, earlier, other>>

--------------------------------------------------------------------------
\* Bounds of the model

\* add_todo is called at most MaxAdds times per file
MaxAdds == 2
\* the number of records in the stores that get_todos is checked on
MaxListLen == 4
\* the number of records in the documents load_todos is checked on
MaxDocLen == 2

\* datetime.now().strftime("%Y-%m-%d %H:%M:%S") at the clock readings of a run
Readings == <<"2024-01-01 10:00:00", "2024-01-01 10:00:01">>
Timestamp(t) == Readings[t + 1]
Time == 0..(Len(Readings) - 1)

--------------------------------------------------------------------------
\* Values

None == <<>>
Some(v) == <<v>>

\* the id of a TodoItem before the manager assigns one (Python None)
NoId == 0

\* Python truthiness of an Optional[str]: None and "" are falsy
Truthy(opt) == opt # None /\ opt # Some("")

\* str.lower() on the strings the model uses
Lower(s) ==
    CASE s = "HIGH" -> "high"
      [] s = "High" -> "high"
      [] s = "Low" -> "low"
      [] s = "MEDIUM" -> "medium"
      [] s = "Medium" -> "medium"
      [] OTHER -> s

\* the list literal ["low", "medium", "high"] the code tests membership in
PriorityNames == {"low", "medium", "high"}

\* the keys of a serialized record
ItemKeys == {"id", "task", "completed", "priority", "created_at", "due_date", "completed_at"}

--------------------------------------------------------------------------
\* TodoItem

\* TodoItem.__init__ run when datetime.now().strftime(...) gives t
TodoItem(task, priority, due_date, t) ==
    [id |-> NoId,
     task |-> task,
     completed |-> FALSE,
     priority |-> Lower(priority),
     created_at |-> t,
     due_date |-> due_date,
     completed_at |-> None]

\* a variant of to_dict: an absent due date written as the empty string
ToDictEmptyDue(item) ==
    [id |-> item.id,
     task |-> item.task,
     completed |-> item.completed,
     priority |-> item.priority,
     created_at |-> item.created_at,
     due_date |-> IF item.due_date = None THEN Some("") ELSE item.due_date,
     completed_at |-> item.completed_at]

\* TodoItem.to_dict
to_dict(item) ==
    [id |-> item.id,
     task |-> item.task,
     completed |-> item.completed,
     priority |-> item.priority,
     created_at |-> item.created_at,
     due_date |-> item.due_date,
     completed_at |-> item.completed_at]

\* data[key] raises KeyError for some key from_dict reads
RaisesKeyError(data) == ~(ItemKeys \subseteq DOMAIN data)

\* a variant of from_dict: completed and completed_at left as __init__ set them
FromDictForgetsCompletion(data, t) ==
    LET item == TodoItem(data.task, data.priority, data.due_date, t)
    IN  [item EXCEPT !.id = data.id, !.created_at = data.created_at]

\* TodoItem.from_dict run when the clock string is t, for data with every key present
from_dict(data, t) ==
    LET item == TodoItem(data.task, data.priority, data.due_date, t)
    IN  [item EXCEPT !.id = data.id,
                     !.completed = data.completed,
                     !.created_at = data.created_at,
                     !.completed_at = data.completed_at]

--------------------------------------------------------------------------
\* TodoManager: the file

FileMissing == [kind |-> "missing", data |-> None]

\* a variant of save_todos: next_id derived from the length of the list
SaveTodosCountingRecords(ts, n) ==
    [kind |-> "object",
     data |-> [todos |-> [i \in 1..Len(ts) |-> to_dict(ts[i])],
               next_id |-> Len(ts) + 1]]

\* TodoManager.save_todos: the document json.dump writes
save_todos(ts, n) ==
    [kind |-> "object",
     data |-> [todos |-> [i \in 1..Len(ts) |-> to_dict(ts[i])],
               next_id |-> n]]

\* data.get('todos', [])
DocTodos(data) == IF "todos" \in DOMAIN data THEN data.todos ELSE <<>>

\* a variant of DocNextId: the counter recomputed from the number of records
DocNextIdFromRecords(data) == Len(DocTodos(data)) + 1

\* data.get('next_id', 1)
DocNextId(data) == IF "next_id" \in DOMAIN data THEN data.next_id ELSE 1

\* TodoManager.__init__ followed by load_todos on file f when the clock string is t:
\* the fields the manager ends with, and whether an exception left the call.
\*   missing file            : the fields keep the values __init__ gave them
\*   json.JSONDecodeError    : caught, the fields are reset
\*   a JSON value not a dict : data.get raises AttributeError, not caught
\*   a record lacking a key  : from_dict raises KeyError, not caught
load_todos(f, t) ==
    CASE f.kind = "missing" -> [todos |-> <<>>, next_id |-> 1, raised |-> FALSE]
      [] f.kind = "notjson" -> [todos |-> <<>>, next_id |-> 1, raised |-> FALSE]
      [] f.kind = "nonobject" -> [todos |-> <<>>, next_id |-> 1, raised |-> TRUE]
      [] OTHER ->
           LET items == DocTodos(f.data)
           IN  IF \E i \in 1..Len(items) : RaisesKeyError(items[i])
               THEN [todos |-> <<>>, next_id |-> 1, raised |-> TRUE]
               ELSE [todos |-> [i \in 1..Len(items) |-> from_dict(items[i], t)],
                     next_id |-> DocNextId(f.data),
                     raised |-> FALSE]

--------------------------------------------------------------------------
\* TodoManager: helpers of the operations

\* a variant of CoercePriority: the argument passed on as given
NoCoercion(priority) == priority

\* a variant of CoercePriority: the membership test made after lower()
CoerceAfterLower(priority) ==
    IF Lower(priority) \notin PriorityNames THEN "medium" ELSE priority

\* add_todo, lines 66-67: a priority outside the list becomes "medium"
CoercePriority(priority) ==
    IF priority \notin PriorityNames THEN "medium" ELSE priority

\* a variant of FreshId: the id taken from the length of the list
FreshIdByLen(ts, n) == Len(ts) + 1

\* add_todo, line 70: the id the new record gets
FreshId(ts, n) == n

\* a variant of BumpNextId: the counter left as it is
KeepNextId(n) == n

\* add_todo, line 72
BumpNextId(n) == n + 1

\* a variant of IndexOf: the last position when no record has this id
IndexOfOrLast(ts, todo_id) ==
    IF \E i \in 1..Len(ts) : ts[i].id = todo_id
    THEN CHOOSE i \in 1..Len(ts) :
            /\ ts[i].id = todo_id
            /\ \A j \in 1..(i - 1) : ts[j].id # todo_id
    ELSE Len(ts)

\* the position of the first record with this id, 0 when there is none
\* (the for loops of remove / complete / uncomplete / update)
IndexOf(ts, todo_id) ==
    IF \E i \in 1..Len(ts) : ts[i].id = todo_id
    THEN CHOOSE i \in 1..Len(ts) :
            /\ ts[i].id = todo_id
            /\ \A j \in 1..(i - 1) : ts[j].id # todo_id
    ELSE 0

\* a variant of DeleteAt: the list cut off at position i
DeleteFrom(ts, i) == SubSeq(ts, 1, i - 1)

\* del self.todos[i]
DeleteAt(ts, i) == [j \in 1..(Len(ts) - 1) |-> IF j < i THEN ts[j] ELSE ts[j + 1]]

\* a variant of MarkCompleted: completed_at not set
MarkCompletedNoTime(item, t) == [item EXCEPT !.completed = TRUE]

\* complete_todo, lines 89-90
MarkCompleted(item, t) == [item EXCEPT !.completed = TRUE, !.completed_at = Some(t)]

\* a variant of MarkPending: completed_at not cleared
MarkPendingKeepsTime(item) == [item EXCEPT !.completed = FALSE]

\* uncomplete_todo, lines 99-100
MarkPending(item) == [item EXCEPT !.completed = FALSE, !.completed_at = None]

\* a variant of ApplyUpdate: nothing applied when the priority is not recognized
ApplyUpdateAllOrNothing(item, task, priority, due_date) ==
    IF priority # None /\ Lower(priority[1]) \notin PriorityNames
    THEN item
    ELSE LET i1 == IF Truthy(task) THEN [item EXCEPT !.task = task[1]] ELSE item
             i2 == IF Truthy(priority) THEN [i1 EXCEPT !.priority = Lower(priority[1])] ELSE i1
         IN  IF due_date # None THEN [i2 EXCEPT !.due_date = due_date] ELSE i2

\* a variant of ApplyUpdate: due_date assigned whether given or not
ApplyUpdateAlwaysSetsDue(item, task, priority, due_date) ==
    LET i1 == IF Truthy(task) THEN [item EXCEPT !.task = task[1]] ELSE item
        i2 == IF Truthy(priority) /\ Lower(priority[1]) \in PriorityNames
              THEN [i1 EXCEPT !.priority = Lower(priority[1])]
              ELSE i1
    IN  [i2 EXCEPT !.due_date = due_date]

\* update_todo, lines 121-126; task, priority and due_date are Optional[str]
ApplyUpdate(item, task, priority, due_date) ==
    LET i1 == IF Truthy(task) THEN [item EXCEPT !.task = task[1]] ELSE item
        i2 == IF Truthy(priority) /\ Lower(priority[1]) \in PriorityNames
              THEN [i1 EXCEPT !.priority = Lower(priority[1])]
              ELSE i1
    IN  IF due_date # None THEN [i2 EXCEPT !.due_date = due_date] ELSE i2

--------------------------------------------------------------------------
\* TodoManager.get_todos

\* the comprehension of line 110
FilterPending(ts) == SelectSeq(ts, LAMBDA x : ~x.completed)

\* a variant of FilterPriority: the filter compared as given
FilterPriorityAsGiven(ts, priority_filter) ==
    SelectSeq(ts, LAMBDA x : x.priority = priority_filter[1])

\* the comprehension of line 113
FilterPriority(ts, priority_filter) ==
    SelectSeq(ts, LAMBDA x : x.priority = Lower(priority_filter[1]))

\* a variant of SortKey: the third component tests "low"
SortKeyLowFirst(x) == <<x.completed, x.priority # "high", x.priority # "low">>

\* the sort key of line 115, a tuple of three booleans
SortKey(x) == <<x.completed, x.priority # "high", x.priority # "medium">>

\* Python's order on tuples of booleans: lexicographic, False < True
KeyLess(a, b) ==
    \E k \in 1..Len(a) :
        /\ \A j \in 1..(k - 1) : a[j] = b[j]
        /\ ~a[k] /\ b[k]

\* x put into the sorted list s behind every element whose key is not greater
InsertSorted(s, x) ==
    LET n == Cardinality({i \in 1..Len(s) : ~KeyLess(SortKey(x), SortKey(s[i]))})
    IN  SubSeq(s, 1, n) \o <<x>> \o SubSeq(s, n + 1, Len(s))

\* sorted(ts, key=...): a stable sort, computed by insertion from the left
RECURSIVE sorted(_)
sorted(ts) ==
    IF ts = <<>> THEN <<>>
    ELSE InsertSorted(sorted(SubSeq(ts, 1, Len(ts) - 1)), ts[Len(ts)])

\* get_todos(show_completed, priority_filter)
get_todos(ts, show_completed, priority_filter) ==
    LET f1 == IF ~show_completed THEN FilterPending(ts) ELSE ts
        f2 == IF Truthy(priority_filter) THEN FilterPriority(f1, priority_filter) ELSE f1
    IN  sorted(f2)

--------------------------------------------------------------------------
\* The operations of TodoManager, as actions

Call(op, args, ret) == [op |-> op, args |-> args, ret |-> ret]

\* the greatest of n and the elements of the sequence s
MaxOf(n, s) ==
    CHOOSE m \in {n} \cup {s[k] : k \in 1..Len(s)} :
        m >= n /\ \A k \in 1..Len(s) : m >= s[k]

\* TodoManager(filename): __init__ and the load_todos it ends with
Construct ==
    LET r == load_todos(file, Timestamp(now))
    IN  /\ todos' = r.todos
        /\ next_id' = r.next_id
        /\ pc' = IF r.raised THEN "crashed" ELSE "ready"
        /\ last' = Call("load", <<>>, ~r.raised)
        /\ assigned' = <<>>
        /\ snap' = None
        /\ earlier' = IF assigned = <<>> THEN earlier ELSE MaxOf(earlier, assigned)
        /\ UNCHANGED <<file, now, other>>

\* add_todo(task, priority, due_date)
AddTodo(task, priority, due_date) ==
    /\ pc = "ready"
    /\ LET item == TodoItem(task, CoercePriority(priority), due_date, Timestamp(now))
           todo == [item EXCEPT !.id = FreshId(todos, next_id)]
       IN  /\ todos' = Append(todos, todo)
           /\ next_id' = BumpNextId(next_id)
           /\ file' = save_todos(todos', next_id')
           /\ last' = Call("add", <<task, priority, due_date>>, todo.id)
           /\ assigned' = Append(assigned, todo.id)
    /\ snap' = None
    /\ UNCHANGED <<now, pc, earlier, other>>

\* remove_todo(todo_id)
RemoveTodo(todo_id) ==
    /\ pc = "ready"
    /\ LET i == IndexOf(todos, todo_id)
       IN  IF i # 0
           THEN /\ todos' = DeleteAt(todos, i)
                /\ file' = save_todos(todos', next_id)
                /\ last' = Call("remove", <<todo_id>>, TRUE)
           ELSE /\ last' = Call("remove", <<todo_id>>, FALSE)
                /\ UNCHANGED <<todos, file>>
    /\ snap' = None
    /\ UNCHANGED <<next_id, now, pc, assigned, earlier, other>>

\* complete_todo(todo_id)
CompleteTodo(todo_id) ==
    /\ pc = "ready"
    /\ LET i == IndexOf(todos, todo_id)
       IN  IF i # 0
           THEN /\ todos' = [todos EXCEPT ![i] = MarkCompleted(todos[i], Timestamp(now))]
                /\ file' = save_todos(todos', next_id)
                /\ last' = Call("complete", <<todo_id>>, TRUE)
                /\ snap' = [id |-> todo_id, before |-> todos, stage |-> "completed",
                            ret |-> last'.ret]
           ELSE /\ last' = Call("complete", <<todo_id>>, FALSE)
                /\ snap' = None
                /\ UNCHANGED <<todos, file>>
    /\ UNCHANGED <<next_id, now, pc, assigned, earlier, other>>

\* uncomplete_todo(todo_id)
UncompleteTodo(todo_id) ==
    /\ pc = "ready"
    /\ LET i == IndexOf(todos, todo_id)
       IN  IF i # 0
           THEN /\ todos' = [todos EXCEPT ![i] = MarkPending(todos[i])]
                /\ file' = save_todos(todos', next_id)
                /\ last' = Call("uncomplete", <<todo_id>>, TRUE)
           ELSE /\ last' = Call("uncomplete", <<todo_id>>, FALSE)
                /\ UNCHANGED <<todos, file>>
    /\ snap' = IF snap # None /\ snap.stage = "completed" /\ snap.id = todo_id
               THEN [snap EXCEPT !.stage = "uncompleted"]
               ELSE None
    /\ UNCHANGED <<next_id, now, pc, assigned, earlier, other>>

\* update_todo(todo_id, task, priority, due_date)
UpdateTodo(todo_id, task, priority, due_date) ==
    /\ pc = "ready"
    /\ LET i == IndexOf(todos, todo_id)
       IN  IF i # 0
           THEN /\ todos' = [todos EXCEPT ![i] = ApplyUpdate(todos[i], task, priority, due_date)]
                /\ file' = save_todos(todos', next_id)
                /\ last' = Call("update", <<todo_id, task, priority, due_date>>, TRUE)
           ELSE /\ last' = Call("update", <<todo_id, task, priority, due_date>>, FALSE)
                /\ UNCHANGED <<todos, file>>
    /\ snap' = None
    /\ UNCHANGED <<next_id, now, pc, assigned, earlier, other>>

\* a variant of StoreAfterGet: list.sort() in place of sorted(); without a
\* filter filtered_todos is self.todos itself (line 107)
StoreSortedInPlace(ts, show_completed, priority_filter) ==
    IF show_completed /\ ~Truthy(priority_filter) THEN sorted(ts) ELSE ts

\* self.todos after get_todos: the comprehensions and sorted() build new
\* lists, the list aliased at line 107 is not written to
StoreAfterGet(ts, show_completed, priority_filter) == ts

\* get_todos(show_completed, priority_filter)
GetTodos(show_completed, priority_filter) ==
    /\ pc = "ready"
    /\ last' = Call("list", <<show_completed, priority_filter>>,
                    get_todos(todos, show_completed, priority_filter))
    /\ todos' = StoreAfterGet(todos, show_completed, priority_filter)
    /\ snap' = None
    /\ UNCHANGED <<next_id, file, now, pc, assigned, earlier, other>>

\* a second passes on the wall clock
Tick ==
    /\ now + 1 \in Time
    /\ now' = now + 1
    /\ UNCHANGED <<todos, next_id, file, pc, last, assigned, snap, earlier, other>>

--------------------------------------------------------------------------
\* Spec: one manager on a file that does not exist at first; the process may
\* exit and a new manager be constructed on the same file. The clock runs; the
\* calls draw their text arguments from small sets.

IdArgs == 1..(MaxAdds + 1)

\* the (task, priority, due_date) arguments add_todo is called with
AddArgs == { <<"a", "low", None>>, <<"a", "urgent", Some("d1")>> }

Init ==
    /\ todos = <<>>
    /\ next_id = 1
    /\ file = FileMissing
    /\ now = 0
    /\ pc = "ready"
    /\ last = Call("init", <<>>, TRUE)
    /\ assigned = <<>>
    /\ snap = None
    /\ earlier = 0
    /\ other = None

\* the guard that keeps the number of add_todo calls finite
MayAdd(n) == next_id <= n /\ Len(todos) < n /\ Len(assigned) < n

Restart == pc = "ready" /\ Construct

Next ==
    \/ \E a \in AddArgs : MayAdd(MaxAdds) /\ AddTodo(a[1], a[2], a[3])
    \/ \E i \in IdArgs : RemoveTodo(i)
    \/ \E i \in IdArgs : CompleteTodo(i)
    \/ \E i \in IdArgs : UncompleteTodo(i)
    \/ \E i \in IdArgs : UpdateTodo(i, Some("b"), None, None)
    \/ Restart
    \/ Tick

Spec == Init /\ [][Next]_vars

--------------------------------------------------------------------------
\* SpecFields: the same manager with the clock standing still and the text
\* arguments of add_todo and update_todo drawn from larger sets.

PriorityArgs == {"high", "HIGH", "urgent"}
DueArgs == {None, Some("d1")}

\* the (task, priority, due_date) arguments update_todo is called with
UpdateArgs ==
    { <<None, None, None>>,
      <<None, Some("Low"), None>>,
      <<None, Some("urgent"), None>>,
      <<None, None, Some("")>>,
      <<Some("b"), Some("urgent"), Some("d2")>> }

NextFields ==
    \/ \E p \in PriorityArgs, d \in DueArgs : MayAdd(MaxAdds) /\ AddTodo("a", p, d)
    \/ \E i \in IdArgs : RemoveTodo(i)
    \/ \E i \in IdArgs, u \in UpdateArgs : UpdateTodo(i, u[1], u[2], u[3])
    \/ Restart

SpecFields == Init /\ [][NextFields]_vars

--------------------------------------------------------------------------
\* SpecList: stores of up to MaxListLen records of every priority, pending and
\* completed, built by the manager's own calls, and get_todos run on them.

FilterArgs == {None, Some(""), Some("low"), Some("HIGH"), Some("Medium")}
ListIdArgs == 1..MaxListLen

NextList ==
    \/ \E p \in PriorityNames : MayAdd(MaxListLen) /\ AddTodo("a", p, None)
    \/ \E i \in ListIdArgs : CompleteTodo(i)
    \/ \E sc \in BOOLEAN, pf \in FilterArgs : GetTodos(sc, pf)

SpecList == Init /\ [][NextList]_vars

--------------------------------------------------------------------------
\* SpecLoad: a manager constructed on a file with any of the contents below:
\* no file, text that is not JSON, a JSON value that is not an object, and
\* objects with or without each of the keys, their records complete or not.

\* a serialized record with id i; drop names a key left out ("" for none)
DocItem(i, completed, priority, drop) ==
    LET full == to_dict([id |-> i,
                         task |-> "a",
                         completed |-> completed,
                         priority |-> priority,
                         created_at |-> Timestamp(0),
                         due_date |-> Some("d1"),
                         completed_at |-> IF completed THEN Some(Timestamp(0)) ELSE None])
    IN  [k \in ItemKeys \ {drop} |-> full[k]]

DocItems(i) ==
    { DocItem(i, c, p, d) : c \in BOOLEAN, p \in {"low", "HIGH"},
                            d \in {"", "task", "completed_at"} }

\* the lists of records of length n, the record at position i with id i
DocLists(n) ==
    { l \in [1..n -> UNION { DocItems(i) : i \in 1..n }] : \A i \in 1..n : l[i].id = i }

\* the documents with a list of n records
DocsOfLen(n) ==
    UNION { { [todos |-> l, next_id |-> n + 1], [todos |-> l] } : l \in DocLists(n) }

Documents ==
    UNION { DocsOfLen(n) : n \in 0..MaxDocLen } \cup { [next_id |-> 1], <<>> }

FileContents ==
    { FileMissing, [kind |-> "notjson", data |-> None], [kind |-> "nonobject", data |-> None] }
    \cup { [kind |-> "object", data |-> d] : d \in Documents }

InitLoad ==
    /\ todos = <<>>
    /\ next_id = 1
    /\ file \in FileContents
    /\ now \in Time
    /\ pc = "new"
    /\ last = Call("init", <<>>, TRUE)
    /\ assigned = <<>>
    /\ snap = None
    /\ earlier = 0
    /\ other = None

NextLoad == pc = "new" /\ Construct

SpecLoad == InitLoad /\ [][NextLoad]_vars

--------------------------------------------------------------------------
\* SpecTwo: two managers on one file. Nothing in the code locks the file or
\* reloads it: each manager works on the lists it loaded at construction and
\* writes its whole collection at every save. The calls of the two managers
\* interleave; each call runs to its end (the code is single-threaded).

\* a second process constructs TodoManager on the same file
StartSecond ==
    /\ pc = "ready"
    /\ other = None
    /\ LET r == load_todos(file, Timestamp(now))
       IN  /\ ~r.raised
           /\ other' = [todos |-> r.todos, next_id |-> r.next_id, assigned |-> <<>>]
    /\ last' = Call("second", <<>>, TRUE)
    /\ snap' = None
    /\ UNCHANGED <<todos, next_id, file, now, pc, assigned, earlier>>

\* the next call comes from the other process
Switch ==
    /\ pc = "ready"
    /\ other # None
    /\ todos' = other.todos
    /\ next_id' = other.next_id
    /\ assigned' = other.assigned
    /\ other' = [todos |-> todos, next_id |-> next_id, assigned |-> assigned]
    /\ last' = Call("switch", <<>>, TRUE)
    /\ snap' = None
    /\ UNCHANGED <<file, now, pc, earlier>>

NextTwo ==
    \/ \E a \in AddArgs : MayAdd(MaxAdds) /\ AddTodo(a[1], a[2], a[3])
    \/ \E i \in IdArgs : UpdateTodo(i, None, None, None)
    \/ StartSecond
    \/ Switch

SpecTwo == Init /\ [][NextTwo]_vars

--------------------------------------------------------------------------
\* Properties

Mutating == {"add", "remove", "complete", "uncomplete", "update"}

\* the last call was a mutating operation that succeeded (add always does)
MutationSucceeded ==
    \/ last.op = "add"
    \/ (last.op \in Mutating /\ last.ret = TRUE)

\* C1 (Spec): the ids add returns on one manager are strictly increasing in
\* call order, so none is returned twice, whatever was removed in between.
C1_AddIdsStrictlyIncreasing ==
    /\ \A i, j \in 1..Len(assigned) : i < j => assigned[i] < assigned[j]
    /\ last.op = "add" => last.ret = assigned[Len(assigned)]

\* add has just returned its second id, and the record with the first id, the
\* highest id of its time, was removed before that call
C1_Witness ==
    /\ last.op = "add"
    /\ Len(assigned) = 2
    /\ Len(todos) = 1
    /\ todos[1].id = last.ret

\* C2 (Spec): no two records of the live collection have the same id.
C2_LiveIdsUnique ==
    \A i, j \in 1..Len(todos) : i # j => todos[i].id # todos[j].id

\* two records are live, the second one just added
C2_Witness ==
    /\ last.op = "add"
    /\ Len(todos) = 2

\* C3 (Spec): after every successful mutating operation the file holds the
\* in-memory collection, record by record and field by field, and next_id.
C3_FileHoldsMemoryAfterMutation ==
    MutationSucceeded =>
        /\ file.kind = "object"
        /\ DOMAIN file.data = {"todos", "next_id"}
        /\ file.data.next_id = next_id
        /\ Len(file.data.todos) = Len(todos)
        /\ \A i \in 1..Len(todos) :
              /\ DOMAIN file.data.todos[i] = ItemKeys
              /\ \A k \in ItemKeys : file.data.todos[i][k] = todos[i][k]

\* a remove that found its record has just rewritten a file that still holds
\* a completed record
C3_Witness ==
    /\ last.op = "remove"
    /\ last.ret = TRUE
    /\ Len(todos) = 1
    /\ todos[1].completed
    /\ next_id = 3

\* what C4 calls a missing or malformed file
MissingOrMalformed(f) ==
    \/ f.kind \in {"missing", "notjson", "nonobject"}
    \/ /\ f.kind = "object"
       /\ \E i \in 1..Len(DocTodos(f.data)) : RaisesKeyError(DocTodos(f.data)[i])

\* C4 (SpecLoad): loading never raises, and a missing or malformed file leaves
\* the manager with an empty collection and next_id = 1.
C4_LoadNeverFails ==
    last.op = "load" =>
        /\ pc = "ready"
        /\ MissingOrMalformed(file) => (todos = <<>> /\ next_id = 1)

\* C5 (Spec): save followed by load in a fresh manager, at any later time,
\* gives the same records in the same order with the same seven field values,
\* and the same next_id.
C5_SaveLoadRoundTrip ==
    pc = "ready" =>
        \A t \in Time :
            LET r == load_todos(save_todos(todos, next_id), Timestamp(t))
            IN  /\ ~r.raised
                /\ r.next_id = next_id
                /\ Len(r.todos) = Len(todos)
                /\ \A i \in 1..Len(todos) :
                      \A k \in ItemKeys : r.todos[i][k] = todos[i][k]

\* a new manager has just loaded two records written a second earlier, one of
\* them completed, one with a due date
C5_Witness ==
    /\ last.op = "load"
    /\ Len(todos) = 2
    /\ \E i \in 1..2 : todos[i].completed /\ todos[i].created_at # Timestamp(now)
    /\ \E i \in 1..2 : todos[i].due_date # None
    /\ next_id = 3

\* C6 (Spec): completed_at is set exactly on the completed records.
C6_CompletedAtIffCompleted ==
    \A i \in 1..Len(todos) : (todos[i].completed_at # None) <=> todos[i].completed

\* one record has just been set back to pending while another is completed
C6_Witness ==
    /\ last.op = "uncomplete"
    /\ last.ret = TRUE
    /\ \E i \in 1..Len(todos) : todos[i].id = last.args[1] /\ ~todos[i].completed
    /\ \E i \in 1..Len(todos) : todos[i].completed

\* C7 (SpecFields): every record's priority is low, medium or high, whatever
\* priority add and update were given.
C7_PriorityInEnum ==
    \A i \in 1..Len(todos) : todos[i].priority \in {"low", "medium", "high"}

\* update has just been given an unrecognized priority, next to a record whose
\* priority add coerced and one that update set from "Low"
C7_Witness ==
    /\ last.op = "update"
    /\ last.ret = TRUE
    /\ last.args[3] = Some("urgent")
    /\ \E i \in 1..Len(todos) : todos[i].priority = "medium"
    /\ \E i \in 1..Len(todos) : todos[i].priority = "low"

\* the place of a record in the order the claim describes: pending before
\* completed, and high, medium, low within each
Rank(x) ==
    (IF x.completed THEN 3 ELSE 0)
    + (CASE x.priority = "high" -> 0 [] x.priority = "medium" -> 1 [] OTHER -> 2)

\* the store [low pending, high completed, medium pending, high pending]
ExampleStore ==
    /\ Len(todos) = 4
    /\ todos[1].priority = "low" /\ ~todos[1].completed
    /\ todos[2].priority = "high" /\ todos[2].completed
    /\ todos[3].priority = "medium" /\ ~todos[3].completed
    /\ todos[4].priority = "high" /\ ~todos[4].completed

\* C8 (SpecList): the list is in rank order, records of equal rank in their
\* store order; the example store is listed as [4th, 3rd, 1st, 2nd].
C8_ListSorted ==
    last.op = "list" =>
        LET r == last.ret
        IN  /\ \A i, j \in 1..Len(r) :
                  i < j => /\ Rank(r[i]) <= Rank(r[j])
                           /\ Rank(r[i]) = Rank(r[j])
                                 => IndexOf(todos, r[i].id) < IndexOf(todos, r[j].id)
            /\ (ExampleStore /\ last.args = <<TRUE, None>>)
                  => r = <<todos[4], todos[3], todos[1], todos[2]>>

\* the example store has just been listed without filters
C8_Witness ==
    /\ last.op = "list"
    /\ last.args = <<TRUE, None>>
    /\ ExampleStore

\* whether get_todos(show_completed, priority_filter) is to return x; an
\* absent or empty filter selects every priority
Selected(x, show_completed, priority_filter) ==
    /\ show_completed \/ ~x.completed
    /\ Truthy(priority_filter) => x.priority = Lower(priority_filter[1])

\* C9 (SpecList): the list holds exactly the records that pass the filters,
\* each once; none is completed when show_completed is false.
C9_ListSelectsExactly ==
    last.op = "list" =>
        LET r == last.ret
            sc == last.args[1]
            pf == last.args[2]
        IN  /\ \A i \in 1..Len(r) :
                  /\ \E j \in 1..Len(todos) : todos[j] = r[i]
                  /\ Selected(r[i], sc, pf)
                  /\ ~sc => ~r[i].completed
            /\ \A j \in 1..Len(todos) :
                  Selected(todos[j], sc, pf)
                     => Cardinality({i \in 1..Len(r) : r[i] = todos[j]}) = 1
            /\ pf = Some("HIGH") => \A i \in 1..Len(r) : r[i].priority = "high"
            /\ ~Truthy(pf) /\ sc => Len(r) = Len(todos)

\* pending records were just listed with the filter "HIGH": one is returned,
\* a completed high record and a pending low record are left out
C9_Witness ==
    /\ last.op = "list"
    /\ last.args = <<FALSE, Some("HIGH")>>
    /\ Len(last.ret) >= 1
    /\ \E j \in 1..Len(todos) : todos[j].priority = "high" /\ todos[j].completed
    /\ \E j \in 1..Len(todos) : todos[j].priority = "low" /\ ~todos[j].completed

\* C10 (Spec): complete(id); uncomplete(id) on an existing record, pending or
\* completed before: both return true, the record ends pending with
\* completed_at null, its other fields and the other records are unchanged.
C10_CompleteThenUncomplete ==
    (snap # None /\ snap.stage = "uncompleted") =>
        LET i == IndexOf(snap.before, snap.id)
        IN  /\ snap.ret = TRUE
            /\ last.op = "uncomplete" /\ last.ret = TRUE
            /\ Len(todos) = Len(snap.before)
            /\ \A j \in 1..Len(todos) : j # i => todos[j] = snap.before[j]
            /\ ~todos[i].completed
            /\ todos[i].completed_at = None
            /\ \A k \in ItemKeys \ {"completed", "completed_at"} :
                  todos[i][k] = snap.before[i][k]

\* the pair has just run on a record that was completed before, with a second
\* record in the store
C10_Witness ==
    /\ snap # None
    /\ snap.stage = "uncompleted"
    /\ Len(todos) = 2
    /\ snap.before[IndexOf(snap.before, snap.id)].completed

\* the step is a call of one of the operations in ops (a step that is not Tick
\* sets last to the call it makes)
CallOf(ops) == last'.op \in ops /\ now' = now

\* no live record has this id
NotLive(ts, todo_id) == \A i \in 1..Len(ts) : ts[i].id # todo_id

\* C11 (Spec): remove, complete, uncomplete and update with an id no live
\* record has return false, raise nothing, and leave the collection, next_id
\* and the file as they were.
C11_NotFoundChangesNothing ==
    [][(CallOf({"remove", "complete", "uncomplete", "update"})
          /\ NotLive(todos, last'.args[1]))
       => /\ last'.ret = FALSE
          /\ pc' = "ready"
          /\ todos' = todos
          /\ next_id' = next_id
          /\ file' = file]_vars

\* update was just called with the id of a record removed before, another
\* record being live
C11_Witness ==
    /\ last.op = "update"
    /\ last.ret = FALSE
    /\ \E k \in 1..Len(assigned) : assigned[k] = last.args[1]
    /\ Len(todos) = 1

\* the file f is a document with exactly the records ts, field by field and in
\* order, and the counter n
FileHolds(f, ts, n) ==
    /\ f.kind = "object"
    /\ DOMAIN f.data = {"todos", "next_id"}
    /\ f.data.next_id = n
    /\ Len(f.data.todos) = Len(ts)
    /\ \A i \in 1..Len(ts) :
          /\ DOMAIN f.data.todos[i] = ItemKeys
          /\ \A k \in ItemKeys : f.data.todos[i][k] = ts[i][k]

\* C12 (SpecTwo): update of an existing record with no field supplied returns
\* true, changes no record and not next_id, and writes the file again: the
\* file then holds this manager's collection whatever it held before.
C12_UpdateWithoutFields ==
    [][(CallOf({"update"})
          /\ ~NotLive(todos, last'.args[1])
          /\ last'.args[2] = None /\ last'.args[3] = None /\ last'.args[4] = None)
       => /\ last'.ret = TRUE
          /\ todos' = todos
          /\ next_id' = next_id
          /\ FileHolds(file', todos, next_id)]_vars

\* the rewrite seen from outside: this manager added one record, the second
\* manager loaded it and added another, and this manager's only call since,
\* an update without fields, left a file without the other's record
C12_Witness ==
    /\ last.op = "update"
    /\ last.ret = TRUE
    /\ other # None
    /\ Len(assigned) = 1
    /\ Len(other.assigned) = 1
    /\ other.assigned[1] # assigned[1]
    /\ ~NotLive(other.todos, assigned[1])
    /\ NotLive(file.data.todos, other.assigned[1])

\* C13 (SpecFields): add stores the priority it is given when that is low,
\* medium or high and medium otherwise; it raises nothing, and the record is
\* appended with the id add returns and is in the file.
C13_AddCoercesPriority ==
    last.op = "add" =>
        LET r == todos[Len(todos)]
            given == last.args[2]
        IN  /\ pc = "ready"
            /\ r.priority = (IF given \in {"low", "medium", "high"} THEN given ELSE "medium")
            /\ r.id = last.ret
            /\ r.task = last.args[1]
            /\ r.due_date = last.args[3]
            /\ FileHolds(file, todos, next_id)

\* add was just given "HIGH", which differs from a recognized value by case
\* only, after a record with priority high was added
C13_Witness ==
    /\ last.op = "add"
    /\ last.args[2] = "HIGH"
    /\ Len(todos) = 2
    /\ todos[1].priority = "high"
    /\ todos[2].priority = "medium"

\* a priority argument that is given and is none of low, medium, high in any
\* letter case
Unrecognized(priority) ==
    priority # None /\ Lower(priority[1]) \notin {"low", "medium", "high"}

\* C14 (SpecFields): update of an existing record with an unrecognized
\* priority returns true, raises nothing, keeps the record's priority and
\* applies the description and the due date given in the same call.
C14_UpdateIgnoresBadPriority ==
    [][(CallOf({"update"})
          /\ ~NotLive(todos, last'.args[1])
          /\ Unrecognized(last'.args[3]))
       => LET i == CHOOSE j \in 1..Len(todos) : todos[j].id = last'.args[1]
          IN  /\ last'.ret = TRUE
              /\ pc' = "ready"
              /\ Len(todos') = Len(todos)
              /\ todos'[i].priority = todos[i].priority
              /\ Truthy(last'.args[2]) => todos'[i].task = last'.args[2][1]
              /\ last'.args[4] # None => todos'[i].due_date = last'.args[4]]_vars

\* update("b", "urgent", "d2") has just run on a record added as ("a", "high")
C14_Witness ==
    /\ last.op = "update"
    /\ last.ret = TRUE
    /\ last.args[2] = Some("b") /\ last.args[3] = Some("urgent") /\ last.args[4] = Some("d2")
    /\ \E i \in 1..Len(todos) :
          /\ todos[i].id = last.args[1]
          /\ todos[i].task = "b"
          /\ todos[i].priority = "high"
          /\ todos[i].due_date = Some("d2")

\* the value update_todo can be given for due_date that is not an omission and
\* names no date: the empty string (None is the omission, line 125)
ClearingSignal == Some("")

\* C15 (SpecFields): update of an existing record leaves due_date as it was
\* when due_date is omitted, and leaves it absent (None) when the clearing
\* signal is given for a record that has a due date.
C15_DueDateOmittedOrCleared ==
    [][(CallOf({"update"}) /\ ~NotLive(todos, last'.args[1]))
       => LET i == CHOOSE j \in 1..Len(todos) : todos[j].id = last'.args[1]
          IN  /\ last'.args[4] = None => todos'[i].due_date = todos[i].due_date
              /\ (last'.args[4] = ClearingSignal /\ todos[i].due_date # None)
                    => todos'[i].due_date = None]_vars

\* C16 (SpecTwo): with two managers on the file, the file after a successful
\* mutation holds the collection of the manager that made it and nothing
\* else (the last writer wins); the witness is a lost update.
C16_LastWriterWins ==
    (other # None /\ MutationSucceeded) => FileHolds(file, todos, next_id)

\* both managers loaded the file before either wrote and each added one
\* record: both records got the same id, they differ, and the file holds the
\* last writer's record only
C16_Witness ==
    /\ other # None
    /\ last.op = "add"
    /\ Len(assigned) = 1 /\ Len(other.assigned) = 1
    /\ assigned[1] = other.assigned[1]
    /\ Len(todos) = 1 /\ Len(other.todos) = 1
    /\ todos[1].id = assigned[1] /\ other.todos[1].id = assigned[1]
    /\ todos[1] # other.todos[1]
    /\ FileHolds(file, todos, next_id)
    /\ \A j \in 1..Len(file.data.todos) :
          file.data.todos[j].priority # other.todos[1].priority

\* C17 (Spec): every id add returns on a manager that loaded the file is
\* greater than every id returned on the managers before it, the ids of
\* records removed since included.
C17_NoIdReuseAcrossSessions ==
    \A k \in 1..Len(assigned) : assigned[k] > earlier

\* the first add of a new manager: the only record of the earlier session was
\* removed, and the new record got the next id, not the removed one
C17_Witness ==
    /\ last.op = "add"
    /\ Len(assigned) = 1
    /\ earlier = 1
    /\ last.ret = 2
    /\ Len(todos) = 1
    /\ todos[1].id = last.ret

C19_ListIsPure ==
    [][CallOf({"list"})
       => /\ todos' = todos
          /\ next_id' = next_id
          /\ file' = file
          /\ (last.op = "list" /\ last.args = last'.args) => last'.ret = last.ret]_vars

\* the unfiltered list was just returned in an order that is not the store's,
\* and the file still holds the store in insertion order
C19_Witness ==
    /\ last.op = "list"
    /\ last.args = <<TRUE, None>>
    /\ Len(todos) >= 2
    /\ Len(last.ret) = Len(todos)
    /\ last.ret # todos
    /\ FileHolds(file, todos, next_id)

\* C20 (Spec): next_id is at least 1 and greater than the id of every live
\* record in every state, and no step makes it smaller.
C20_NextIdAboveIdsAndMonotone ==
    /\ [](next_id >= 1 /\ \A i \in 1..Len(todos) : todos[i].id < next_id)
    /\ [][next_id' >= next_id]_vars

\* both records added were removed again: the store is empty and the counter
\* stays at 3
C20_Witness ==
    /\ last.op = "remove"
    /\ last.ret = TRUE
    /\ todos = <<>>
    /\ next_id = 3

====
